---- MODULE Spec2Model ----
(***************************************************************************)
(* The group-unmerge engine of sentry (src/sentry/unmerge.py): the two     *)
(* replacement policies, the task arguments and their serialization, and   *)
(* the paged batch run that consumes them.                                 *)
(***************************************************************************)
EXTENDS Integers, Sequences, FiniteSets, TLC

(***************************************************************************)
(* Bounds of the model.                                                    *)
(***************************************************************************)
\* longest hierarchical hash sequence an event carries in the policy check
MaxSeqLen == 3
\* largest level (filter_level, new_level) tried
MaxLevel == 5
\* levels below zero tried: -MaxNegLevel .. -1 (Python indexes from the end)
MaxNegLevel == 2

(***************************************************************************)
(* Values.                                                                 *)
(***************************************************************************)
\* entries of a hierarchical hash sequence in the policy check
HierHashes == {"h1", "h2"}

\* Python's None where a string is expected
NoneKey == "None"

_DEFAULT_UNMERGE_KEY == "default"

Levels == (0 - MaxNegLevel)..MaxLevel

\* sequences over S of length 0..n
RECURSIVE SeqsUpTo(_, _)
SeqsUpTo(S, n) ==
    IF n = 0 THEN {<<>>}
    ELSE LET shorter == SeqsUpTo(S, n - 1)
         IN  shorter \cup {Append(s, x) : s \in {t \in shorter : Len(t) = n - 1}, x \in S}

\* An event: get_primary_hash() and data.get("hierarchical_hashes"), which is
\* absent (has_hh = FALSE), or a possibly empty list.
Event(primary, has_hh, hh) == [primary |-> primary, has_hh |-> has_hh, hh |-> hh]

\* The two replacement variants as one record shape; kind is the class.
FlatReplacement(fingerprints) ==
    [kind |-> "flat", fingerprints |-> fingerprints,
     primary_hash |-> NoneKey, filter_hierarchical_hash |-> NoneKey,
     filter_level |-> 0, new_level |-> 0,
     assume_source_emptied |-> FALSE, reset_hashes |-> {}]

HierarchicalReplacement(primary_hash, filter_hash, filter_level, new_level, assume, reset) ==
    [kind |-> "hier", fingerprints |-> {},
     primary_hash |-> primary_hash, filter_hierarchical_hash |-> filter_hash,
     filter_level |-> filter_level, new_level |-> new_level,
     assume_source_emptied |-> assume, reset_hashes |-> reset]

(***************************************************************************)
(* Python list indexing: seq[i] with i < 0 counting from the end, and      *)
(* IndexError when i is outside -len .. len-1.                             *)
(***************************************************************************)
PyIndexError(seq, i) == i >= Len(seq) \/ i < 0 - Len(seq)

PyIndex(seq, i) == IF i >= 0 THEN seq[i + 1] ELSE seq[Len(seq) + i + 1]

(***************************************************************************)
(* Replacement policies: get_unmerge_key.                                  *)
(***************************************************************************)
\* faulty variant: the locked-hash set is not consulted
PrimaryHashGetUnmergeKeyIgnoresLock(r, event, locked) ==
    IF event.primary \in r.fingerprints THEN _DEFAULT_UNMERGE_KEY ELSE NoneKey

PrimaryHashGetUnmergeKey(r, event, locked) ==
    IF event.primary \in r.fingerprints /\ event.primary \in locked
    THEN _DEFAULT_UNMERGE_KEY
    ELSE NoneKey

\* faulty variant: the filter entry is read at new_level instead of filter_level
HierarchicalGetUnmergeKeyWrongLevel(r, event, locked) ==
    IF event.primary # r.primary_hash THEN NoneKey
    ELSE IF ~event.has_hh \/ event.hh = <<>> THEN NoneKey
    ELSE IF PyIndexError(event.hh, r.new_level) THEN NoneKey
    ELSE IF PyIndex(event.hh, r.new_level) # r.filter_hierarchical_hash THEN NoneKey
    ELSE PyIndex(event.hh, r.new_level)

\* faulty variant: new_level out of range falls back to the first entry, not the last
HierarchicalGetUnmergeKeyFirstFallback(r, event, locked) ==
    IF event.primary # r.primary_hash THEN NoneKey
    ELSE IF ~event.has_hh \/ event.hh = <<>> THEN NoneKey
    ELSE IF PyIndexError(event.hh, r.filter_level) THEN NoneKey
    ELSE IF PyIndex(event.hh, r.filter_level) # r.filter_hierarchical_hash THEN NoneKey
    ELSE IF PyIndexError(event.hh, r.new_level) THEN PyIndex(event.hh, 0)
    ELSE PyIndex(event.hh, r.new_level)

HierarchicalGetUnmergeKey(r, event, locked) ==
    IF event.primary # r.primary_hash THEN NoneKey
    ELSE IF ~event.has_hh \/ event.hh = <<>> THEN NoneKey
    ELSE IF PyIndexError(event.hh, r.filter_level) THEN NoneKey
    ELSE IF PyIndex(event.hh, r.filter_level) # r.filter_hierarchical_hash THEN NoneKey
    ELSE IF PyIndexError(event.hh, r.new_level) THEN PyIndex(event.hh, 0 - 1)
    ELSE PyIndex(event.hh, r.new_level)

\* dispatch on the class of the replacement
get_unmerge_key(r, event, locked) ==
    IF r.kind = "flat" THEN PrimaryHashGetUnmergeKey(r, event, locked)
    ELSE HierarchicalGetUnmergeKey(r, event, locked)

(***************************************************************************)
(* get_unmerge_key with its exceptions made explicit: the outcome of a     *)
(* call is [status, value], status "ok" with the returned key, or the      *)
(* exception that leaves the call.                                         *)
(***************************************************************************)
\* hierarchical_hashes[i]: the entry; IndexError outside the list; TypeError
\* when data.get("hierarchical_hashes") is None
PySubscript(event, i) ==
    IF ~event.has_hh THEN [status |-> "TypeError", value |-> <<>>]
    ELSE IF PyIndexError(event.hh, i) THEN [status |-> "IndexError", value |-> <<>>]
    ELSE [status |-> "ok", value |-> <<PyIndex(event.hh, i)>>]

\* the value a call returns
Returns(v) == [status |-> "ok", value |-> <<v>>]

\* faulty variant: the test "if not hierarchical_hashes" (line 152) is missing
HierarchicalGetUnmergeKeyOutcomeNoGuard(r, event, locked) ==
    IF event.primary # r.primary_hash THEN Returns(NoneKey)
    ELSE LET at_filter == PySubscript(event, r.filter_level)
             at_new == PySubscript(event, r.new_level)
         IN  IF at_filter.status = "IndexError" THEN Returns(NoneKey)
             ELSE IF at_filter.status # "ok" THEN at_filter
             ELSE IF at_filter.value[1] # r.filter_hierarchical_hash THEN Returns(NoneKey)
             ELSE IF at_new.status = "IndexError" THEN PySubscript(event, 0 - 1)
             ELSE at_new

\* lines 147-164: each subscript is inside a try that catches IndexError only
HierarchicalGetUnmergeKeyOutcome(r, event, locked) ==
    IF event.primary # r.primary_hash THEN Returns(NoneKey)
    ELSE IF ~event.has_hh \/ event.hh = <<>> THEN Returns(NoneKey)
    ELSE LET at_filter == PySubscript(event, r.filter_level)
             at_new == PySubscript(event, r.new_level)
         IN  IF at_filter.status = "IndexError" THEN Returns(NoneKey)
             ELSE IF at_filter.status # "ok" THEN at_filter
             ELSE IF at_filter.value[1] # r.filter_hierarchical_hash THEN Returns(NoneKey)
             ELSE IF at_new.status = "IndexError" THEN PySubscript(event, 0 - 1)
             ELSE at_new

\* lines 91-95: two membership tests, which do not raise
PrimaryHashGetUnmergeKeyOutcome(r, event, locked) ==
    Returns(PrimaryHashGetUnmergeKey(r, event, locked))

get_unmerge_key_outcome(r, event, locked) ==
    IF r.kind = "flat" THEN PrimaryHashGetUnmergeKeyOutcome(r, event, locked)
    ELSE HierarchicalGetUnmergeKeyOutcome(r, event, locked)

(***************************************************************************)
(* Replacement.parse_arguments and the task arguments.                     *)
(*                                                                         *)
(* An Optional value is <<>> for None and <<v>> for v.  A call's keyword   *)
(* arguments are a record holding the keywords that are passed.            *)
(***************************************************************************)
Ok(v) == [status |-> "ok", value |-> <<v>>]

Raise(exc) == [status |-> exc, value |-> <<>>]

\* isinstance(replacement, UnmergeReplacement)
IsUnmergeReplacement(r) == r.kind \in {"flat", "hier"}

\* UnmergeReplacement.parse_arguments(fingerprints, replacement)
ReplacementParseArguments(fingerprints, replacement) ==
    IF replacement # <<>> THEN
        IF IsUnmergeReplacement(replacement[1]) THEN Ok(replacement[1])
        ELSE Raise("AssertionError")
    ELSE IF fingerprints # <<>> THEN Ok(FlatReplacement(fingerprints[1]))
    ELSE Raise("TypeError")

InitialUnmergeArgs(project_id, source_id, replacement, actor_id, batch_size, destinations) ==
    [class |-> "InitialUnmergeArgs",
     project_id |-> project_id, source_id |-> source_id, replacement |-> replacement,
     actor_id |-> actor_id, batch_size |-> batch_size, destinations |-> destinations]

SuccessiveUnmergeArgs(project_id, source_id, replacement, actor_id, batch_size, last_event, locked_primary_hashes, destinations, source_fields_reset) ==
    [class |-> "SuccessiveUnmergeArgs",
     project_id |-> project_id, source_id |-> source_id, replacement |-> replacement,
     actor_id |-> actor_id, batch_size |-> batch_size,
     last_event |-> last_event, locked_primary_hashes |-> locked_primary_hashes,
     destinations |-> destinations, source_fields_reset |-> source_fields_reset]

\* default of the batch_size parameter
DefaultBatchSize == 500

\* the value bound to a parameter: the keyword passed, or the default
Param(kw, name, default) == IF name \in DOMAIN kw THEN kw[name] ELSE default

\* parameters without a default
RequiredParams == {"project_id", "source_id", "destination_id", "fingerprints", "actor_id"}

\* bool(x) of an Optional collection: None and the empty collection are falsy
Truthy(opt) == opt # <<>> /\ opt[1] # {}

\* a destination: (group_id, eventstream_state)
Destination(group, stream) == [group |-> group, stream |-> stream]

EmptyMap == [k \in {} |-> Destination(0, <<>>)]

\* destinations as parse_arguments resolves them (lines 248-252)
ResolveDestinations(kw) ==
    IF Param(kw, "destinations", <<>>) = <<>> THEN
        IF kw.destination_id # <<>>
        THEN [k \in {_DEFAULT_UNMERGE_KEY} |->
                Destination(kw.destination_id[1], Param(kw, "eventstream_state", <<>>))]
        ELSE EmptyMap
    ELSE kw.destinations[1]

\* faulty variant: the task stays an initial one until a destination exists
ParsePhaseIsInitialUntilMigrating(kw) ==
    Param(kw, "destinations", <<>>) = <<>> \/ DOMAIN kw.destinations[1] = {}

\* faulty variant: a task without a cursor that carries a stream state is
\* taken for a successive one
ParsePhaseIsInitialNoStreamState(kw) ==
    Param(kw, "last_event", <<>>) = <<>> /\ Param(kw, "eventstream_state", <<>>) = <<>>

\* line 254: last_event is None
ParsePhaseIsInitial(kw) == Param(kw, "last_event", <<>>) = <<>>

\* faulty variant: the flag is not passed on to the successive task
ParsedSourceFieldsResetDropped(kw) == FALSE

\* line 277: source_fields_reset=source_fields_reset
ParsedSourceFieldsReset(kw) == Param(kw, "source_fields_reset", FALSE)

\* line 276: locked_primary_hashes or fingerprints or []
ParsedLockedPrimaryHashes(kw) ==
    IF Truthy(Param(kw, "locked_primary_hashes", <<>>)) THEN kw.locked_primary_hashes[1]
    ELSE IF Truthy(kw.fingerprints) THEN kw.fingerprints[1]
    ELSE {}

\* faulty variant: line 267 asserts locked_primary_hashes alone
UnmergeArgsParseArgumentsLockedRequired(kw) ==
    IF ~(RequiredParams \subseteq DOMAIN kw) THEN Raise("TypeError")
    ELSE
    LET replacement == ReplacementParseArguments(kw.fingerprints, Param(kw, "replacement", <<>>))
    IN  IF ParsePhaseIsInitial(kw) THEN
            IF Param(kw, "eventstream_state", <<>>) # <<>> THEN Raise("AssertionError")
            ELSE IF Param(kw, "source_fields_reset", FALSE) THEN Raise("AssertionError")
            ELSE IF replacement.status # "ok" THEN replacement
            ELSE Ok(InitialUnmergeArgs(kw.project_id, kw.source_id, replacement.value[1],
                                       kw.actor_id, Param(kw, "batch_size", DefaultBatchSize),
                                       ResolveDestinations(kw)))
        ELSE
            IF Param(kw, "locked_primary_hashes", <<>>) = <<>>
            THEN Raise("AssertionError")
            ELSE IF replacement.status # "ok" THEN replacement
            ELSE Ok(SuccessiveUnmergeArgs(
                     kw.project_id, kw.source_id, replacement.value[1], kw.actor_id,
                     Param(kw, "batch_size", DefaultBatchSize),
                     Param(kw, "last_event", <<>>),
                     ParsedLockedPrimaryHashes(kw),
                     ResolveDestinations(kw),
                     ParsedSourceFieldsReset(kw)))

\* UnmergeArgsBase.parse_arguments(**kw)
UnmergeArgsParseArguments(kw) ==
    IF ~(RequiredParams \subseteq DOMAIN kw) THEN Raise("TypeError")
    ELSE
    LET replacement == ReplacementParseArguments(kw.fingerprints, Param(kw, "replacement", <<>>))
    IN  IF ParsePhaseIsInitial(kw) THEN
            IF Param(kw, "eventstream_state", <<>>) # <<>> THEN Raise("AssertionError")
            ELSE IF Param(kw, "source_fields_reset", FALSE) THEN Raise("AssertionError")
            ELSE IF replacement.status # "ok" THEN replacement
            ELSE Ok(InitialUnmergeArgs(kw.project_id, kw.source_id, replacement.value[1],
                                       kw.actor_id, Param(kw, "batch_size", DefaultBatchSize),
                                       ResolveDestinations(kw)))
        ELSE
            IF Param(kw, "locked_primary_hashes", <<>>) = <<>> /\ kw.fingerprints = <<>>
            THEN Raise("AssertionError")
            ELSE IF replacement.status # "ok" THEN replacement
            ELSE Ok(SuccessiveUnmergeArgs(
                     kw.project_id, kw.source_id, replacement.value[1], kw.actor_id,
                     Param(kw, "batch_size", DefaultBatchSize),
                     Param(kw, "last_event", <<>>),
                     ParsedLockedPrimaryHashes(kw),
                     ResolveDestinations(kw),
                     ParsedSourceFieldsReset(kw)))

\* dataclasses.asdict of a replacement: its fields as a plain dict, which is
\* no UnmergeReplacement any more
ReplacementAsDict(r) == [r EXCEPT !.kind = "dict"]

\* dataclasses.asdict(self): the fields of the task, nested dataclasses as dicts
AsDict(a) ==
    IF a.class = "InitialUnmergeArgs" THEN
        [project_id |-> a.project_id, source_id |-> a.source_id,
         replacement |-> <<ReplacementAsDict(a.replacement)>>,
         actor_id |-> a.actor_id, batch_size |-> a.batch_size,
         destinations |-> <<a.destinations>>]
    ELSE
        [project_id |-> a.project_id, source_id |-> a.source_id,
         replacement |-> <<ReplacementAsDict(a.replacement)>>,
         actor_id |-> a.actor_id, batch_size |-> a.batch_size,
         last_event |-> a.last_event,
         locked_primary_hashes |-> <<a.locked_primary_hashes>>,
         destinations |-> <<a.destinations>>,
         source_fields_reset |-> a.source_fields_reset]

\* faulty variant: the fingerprints of a flat replacement are emitted as the
\* legacy field
UnmergeArgsDumpArgumentsKeepsLegacy(a) ==
    [AsDict(a) EXCEPT !.replacement = <<a.replacement>>]
        @@ [fingerprints |-> IF a.replacement.kind = "flat"
                             THEN <<a.replacement.fingerprints>> ELSE <<>>,
            destination_id |-> <<>>]

\* faulty variant: the replacement is left as asdict made it
UnmergeArgsDumpArgumentsKeepsDict(a) ==
    AsDict(a) @@ [fingerprints |-> <<>>, destination_id |-> <<>>]

\* faulty variant: the cursor is cleared with the legacy fields
UnmergeArgsDumpArgumentsDropsCursor(a) ==
    (IF a.class = "InitialUnmergeArgs"
     THEN [AsDict(a) EXCEPT !.replacement = <<a.replacement>>]
     ELSE [AsDict(a) EXCEPT !.replacement = <<a.replacement>>, !.last_event = <<>>])
        @@ [fingerprints |-> <<>>, destination_id |-> <<>>]

\* UnmergeArgsBase.dump_arguments(self)
UnmergeArgsDumpArguments(a) ==
    [AsDict(a) EXCEPT !.replacement = <<a.replacement>>]
        @@ [fingerprints |-> <<>>, destination_id |-> <<>>]

\* an eventstream state, as start_snuba_replacement returns it
StreamState(kind, key, source, dest) ==
    [kind |-> kind, key |-> key, source |-> source, dest |-> dest]

(***************************************************************************)
(* The stores a page writes to.  The Hash Lock Table is the set of         *)
(* GroupHash rows of the project: [id, hash, group, state].                *)
(***************************************************************************)
Row(id, hash, group, state) == [id |-> id, hash |-> hash, group |-> group, state |-> state]

\* the id the database gives the next row
NextRowId(table) ==
    IF table = {} THEN 1
    ELSE 1 + (CHOOSE m \in {row.id : row \in table} : \A row \in table : row.id <= m)

\* faulty variant: a row is always inserted
UpdateOrCreateAlwaysCreates(table, hash, group) ==
    table \cup {Row(NextRowId(table), hash, group, "Unlocked")}

\* faulty variant: the row is looked up by hash and group, so a hash owned by
\* another group gets a second row
UpdateOrCreateInsertsWhenOwnerDiffers(table, hash, group) ==
    LET found == {row \in table : row.hash = hash /\ row.group = group}
    IN  IF found = {} THEN table \cup {Row(NextRowId(table), hash, group, "Unlocked")}
        ELSE table

\* GroupHash.objects.update_or_create(project, hash, defaults={"group_id": group}):
\* the one row of the hash gets the group, a missing row is inserted, and with
\* several rows the call raises and writes nothing
UpdateOrCreate(table, hash, group) ==
    LET found == {row \in table : row.hash = hash}
    IN  IF found = {} THEN table \cup {Row(NextRowId(table), hash, group, "Unlocked")}
        ELSE IF Cardinality(found) = 1
        THEN {IF row.hash = hash THEN [row EXCEPT !.group = group] ELSE row : row \in table}
        ELSE table

\* faulty variant: every fingerprint is moved, locked or not
PrimaryHashRunPostgresReplacementAllFingerprints(r, table, unmerge_key, destination_id, locked) ==
    {IF row.hash \in r.fingerprints THEN [row EXCEPT !.group = destination_id] ELSE row :
        row \in table}

\* faulty variant: the update is not filtered by hash, every row of the
\* project is moved
PrimaryHashRunPostgresReplacementWholeProject(r, table, unmerge_key, destination_id, locked) ==
    {[row EXCEPT !.group = destination_id] : row \in table}

PrimaryHashRunPostgresReplacement(r, table, unmerge_key, destination_id, locked) ==
    {IF row.hash \in locked THEN [row EXCEPT !.group = destination_id] ELSE row :
        row \in table}

\* faulty variant: the reset does not test the state, so locked rows of the
\* reset set are unlocked as well
HierarchicalRunPostgresReplacementResetsAnyState(r, table, unmerge_key, destination_id, locked) ==
    LET reset ==
            IF r.reset_hashes # {}
            THEN {IF row.hash \in r.reset_hashes
                  THEN [row EXCEPT !.state = "Unlocked"] ELSE row : row \in table}
            ELSE table
    IN  UpdateOrCreate(reset, unmerge_key, destination_id)

\* faulty variant: the row of the key is inserted without looking for one
HierarchicalRunPostgresReplacementInsertsKey(r, table, unmerge_key, destination_id, locked) ==
    LET reset ==
            IF r.reset_hashes # {}
            THEN {IF row.hash \in r.reset_hashes /\ row.state = "Split"
                  THEN [row EXCEPT !.state = "Unlocked"] ELSE row : row \in table}
            ELSE table
    IN  reset \cup {Row(NextRowId(reset), unmerge_key, destination_id, "Unlocked")}

HierarchicalRunPostgresReplacement(r, table, unmerge_key, destination_id, locked) ==
    LET reset ==
            IF r.reset_hashes # {}
            THEN {IF row.hash \in r.reset_hashes /\ row.state = "Split"
                  THEN [row EXCEPT !.state = "Unlocked"] ELSE row : row \in table}
            ELSE table
    IN  UpdateOrCreate(reset, unmerge_key, destination_id)

run_postgres_replacement(r, table, unmerge_key, destination_id, locked) ==
    IF r.kind = "flat"
    THEN PrimaryHashRunPostgresReplacement(r, table, unmerge_key, destination_id, locked)
    ELSE HierarchicalRunPostgresReplacement(r, table, unmerge_key, destination_id, locked)

primary_hashes_to_lock(r) == IF r.kind = "flat" THEN r.fingerprints ELSE {}

\* the state eventstream.start_unmerge / start_unmerge_hierarchical returns
start_snuba_replacement(r, source_id, unmerge_key, destination_id) ==
    IF r.kind = "flat"
    THEN StreamState("unmerge", NoneKey, source_id, destination_id)
    ELSE StreamState("unmerge_hierarchical", unmerge_key, source_id, destination_id)

\* faulty variant: the guard is inverted, no started replacement is ever ended
stop_snuba_replacement_inverted(r, eventstream_state) == {}

\* the states eventstream.end_unmerge / end_unmerge_hierarchical is called with
stop_snuba_replacement(r, eventstream_state) ==
    IF eventstream_state # <<>> THEN {eventstream_state[1]} ELSE {}

\* the flat variant asserts that the key is the default key
get_activity_args(r, unmerge_key) ==
    IF r.kind = "flat"
    THEN [fingerprints |-> r.fingerprints, new_hierarchical_hash |-> NoneKey,
          assertion_failed |-> unmerge_key # _DEFAULT_UNMERGE_KEY]
    ELSE [fingerprints |-> {}, new_hierarchical_hash |-> unmerge_key,
          assertion_failed |-> FALSE]

\* faulty variant: the hierarchical variant excludes the source group
\* whether or not it is assumed emptied
on_finish_ignores_flag(r, source_id) ==
    IF r.kind = "hier" THEN {source_id} ELSE {}

\* the groups eventstream.exclude_groups is called with
on_finish(r, source_id) ==
    IF r.kind = "hier" /\ r.assume_source_emptied THEN {source_id} ELSE {}

(***************************************************************************)
(* The batch runner: one page of the unmerge task.                         *)
(***************************************************************************)
\* the source group of the run, and a second group that owns rows
SourceId == 1

OtherId == SourceId + 1

\* the first id a newly created group gets
FirstNewGroupId == OtherId + 1

\* the project of the run
ProjectId == 1

\* the user who asked for the unmerge
ActorId == 7

\* f with the count of every element of S raised by one
CountUp(f, S) ==
    [x \in DOMAIN f \cup S |->
        (IF x \in DOMAIN f THEN f[x] ELSE 0) + (IF x \in S THEN 1 ELSE 0)]

NoCounts == [x \in {} |-> 0]

\* HashLockStore.lockHashes: the unlocked rows of the hashes become locked;
\* the hashes of these rows are the locked set
lockHashes(table, hashes) ==
    [table |-> {IF row.hash \in hashes /\ row.state = "Unlocked"
                THEN [row EXCEPT !.state = "Locked"] ELSE row : row \in table},
     locked |-> {row.hash : row \in {x \in table : x.hash \in hashes /\ x.state = "Unlocked"}}]

Min(a, b) == IF a <= b THEN a ELSE b

\* EventSource.fetchPage: the places first+1 .. last of the group's events,
\* and the next cursor, None when the source is exhausted
fetchPage(evs, cursor, limit) ==
    [first |-> cursor,
     last |-> Min(cursor + limit, Len(evs)),
     next |-> IF cursor + limit >= Len(evs) THEN <<>> ELSE <<cursor + limit>>]

\* the distinct keys of a page in the order they first appear
RECURSIVE DistinctKeys(_, _)
DistinctKeys(keys, seen) ==
    IF keys = <<>> THEN <<>>
    ELSE IF Head(keys) = NoneKey \/ Head(keys) \in seen THEN DistinctKeys(Tail(keys), seen)
    ELSE <<Head(keys)>> \o DistinctKeys(Tail(keys), seen \cup {Head(keys)})

\* the one element of a singleton set
Only(S) == CHOOSE x \in S : TRUE

\* steps 4 and 6 for one key of a page: a key without a destination gets a
\* new group and a started stream, then the rows of the key are reassigned
MigrateKey(key, r, source_id, locked, st) ==
    LET known == key \in DOMAIN st.destinations
        group == IF known THEN st.destinations[key].group ELSE st.db.nextGroup
        stream == IF known THEN st.destinations[key].stream
                  ELSE <<start_snuba_replacement(r, source_id, key, group)>>
    IN  [destinations |->
            [k \in DOMAIN st.destinations \cup {key} |->
                IF k = key THEN Destination(group, stream) ELSE st.destinations[k]],
         created |-> IF known THEN st.created ELSE st.created \cup {key},
         db |-> [st.db EXCEPT
                    !.table = run_postgres_replacement(r, st.db.table, key, group, locked),
                    !.nextGroup = IF known THEN @ ELSE @ + 1,
                    !.opened = IF known THEN @ ELSE @ \cup {stream[1]}]]

\* the keys of a page, one after the other
RECURSIVE MigrateKeys(_, _, _, _, _)
MigrateKeys(keys, r, source_id, locked, st) ==
    IF keys = <<>> THEN st
    ELSE Only({MigrateKeys(Tail(keys), r, source_id, locked, next) :
                  next \in {MigrateKey(Head(keys), r, source_id, locked, st)}})

\* step 7 when the source is exhausted: end every started stream, record one
\* activity per destination key, call on_finish
Finalize(r, source_id, destinations, db) ==
    [db EXCEPT
        !.ends = CountUp(@, UNION {stop_snuba_replacement(r, destinations[k].stream) :
                                      k \in DOMAIN destinations}),
        !.activity = CountUp(@, {[key |-> k, group |-> destinations[k].group,
                                  args |-> get_activity_args(r, k)] :
                                      k \in DOMAIN destinations}),
        !.excluded = CountUp(@, on_finish(r, source_id)),
        !.finishes = @ + 1]

\* step 7: the successor task is enqueued, or the run is finalized
PageOutcome(args, locked, page, keys, flag, reset, moved) ==
    [status |-> "ok",
     queue |-> IF page.next = <<>> THEN <<>>
               ELSE <<UnmergeArgsDumpArguments(
                        SuccessiveUnmergeArgs(args.project_id, args.source_id,
                            args.replacement, args.actor_id, args.batch_size, page.next,
                            locked, moved.destinations, flag \/ reset))>>,
     db |-> IF page.next = <<>>
            THEN Finalize(args.replacement, args.source_id, moved.destinations, moved.db)
            ELSE moved.db,
     first |-> page.first, last |-> page.last, keys |-> keys,
     reset |-> reset, created |-> moved.created, locked |-> locked,
     class |-> args.class,
     assigned |-> [i \in DOMAIN keys |->
                     IF keys[i] = NoneKey THEN args.source_id
                     ELSE moved.destinations[keys[i]].group]]

\* steps 4 to 6: the one-time reset of the source group, then the keys
MigratePage(args, lock, page, keys, db) ==
    LET flag == IF args.class = "InitialUnmergeArgs" THEN FALSE ELSE args.source_fields_reset
        reset == (\E i \in DOMAIN keys : keys[i] = NoneKey) /\ ~flag
    IN  Only({PageOutcome(args, lock.locked, page, keys, flag, reset, moved) :
                moved \in {MigrateKeys(DistinctKeys(keys, {}), args.replacement,
                               args.source_id, lock.locked,
                               [destinations |-> args.destinations, created |-> {},
                                db |-> [db EXCEPT !.table = lock.table,
                                                  !.resets = IF reset THEN @ + 1 ELSE @]])}})

\* step 1: the locked set, locked now by an initial task and carried by a
\* successive one
PageLock(args, db) ==
    IF args.class = "InitialUnmergeArgs"
    THEN lockHashes(db.table, primary_hashes_to_lock(args.replacement))
    ELSE [table |-> db.table, locked |-> args.locked_primary_hashes]

\* step 2: the events past the cursor
PageFetch(args, evs) ==
    fetchPage(evs, IF args.class = "InitialUnmergeArgs" THEN 0 ELSE args.last_event[1],
              args.batch_size)

\* step 3: the key decided for every event of the page
PageKeys(args, lock, page, evs) ==
    [i \in 1..(page.last - page.first) |->
        get_unmerge_key(args.replacement, evs[page.first + i], lock.locked)]

\* step 3: decide for every event of the page
RoutePage(args, lock, page, evs, db) ==
    Only({MigratePage(args, lock, page, keys, db) :
            keys \in {PageKeys(args, lock, page, evs)}})

\* steps 1 and 2: the locked set is resolved (locked now by an initial
\* task, carried by a successive one) and the page is fetched
ExecuteArgs(args, evs, db) ==
    Only({RoutePage(args, lock, page, evs, db) :
            lock \in {PageLock(args, db)},
            page \in {PageFetch(args, evs)}})

\* The stores a page leaves behind when a call of it fails: the first done
\* keys of the page are migrated, then the call fails.  call is "begin" (the
\* stream of the next key, a new one, cannot be started: its group exists),
\* "reassign" (the rows of the next key cannot be moved: if the key is new
\* its group exists and its stream is started), or "end" (all keys are
\* migrated and the source is exhausted, a stream cannot be ended).
\* <<>> when the page makes no such call.
AbortedStores(args, evs, db, done, call) ==
    LET lock == PageLock(args, db)
        page == PageFetch(args, evs)
        keys == PageKeys(args, lock, page, evs)
        flag == IF args.class = "InitialUnmergeArgs" THEN FALSE ELSE args.source_fields_reset
        reset == (\E i \in DOMAIN keys : keys[i] = NoneKey) /\ ~flag
        distinct == DistinctKeys(keys, {})
    IN  IF done > Len(distinct) THEN <<>>
        ELSE
        LET st == MigrateKeys(SubSeq(distinct, 1, done), args.replacement, args.source_id,
                              lock.locked,
                              [destinations |-> args.destinations, created |-> {},
                               db |-> [db EXCEPT !.table = lock.table,
                                                 !.resets = IF reset THEN @ + 1 ELSE @]])
        IN  IF call = "end" THEN
                IF /\ done = Len(distinct)
                   /\ page.next = <<>>
                   /\ \E k \in DOMAIN st.destinations : st.destinations[k].stream # <<>>
                THEN <<st.db>> ELSE <<>>
            ELSE IF done = Len(distinct) THEN <<>>
            ELSE
            LET key == distinct[done + 1]
                known == key \in DOMAIN st.destinations
                group == IF known THEN st.destinations[key].group ELSE st.db.nextGroup
            IN  IF call = "begin" THEN
                    IF known THEN <<>>
                    ELSE <<[st.db EXCEPT !.nextGroup = @ + 1]>>
                ELSE
                    IF known THEN <<st.db>>
                    ELSE <<[st.db EXCEPT
                              !.nextGroup = @ + 1,
                              !.opened = @ \cup {start_snuba_replacement(
                                                    args.replacement, args.source_id,
                                                    key, group)}]>>

\* a run stopped by an argument error
PageFailed(status, db) ==
    [status |-> status, queue |-> <<>>, db |-> db, first |-> 0, last |-> 0,
     keys |-> <<>>, reset |-> FALSE, created |-> {}, locked |-> {}, class |-> NoneKey,
     assigned |-> <<>>]

\* One invocation of the task with the keyword arguments kw, on the events
\* evs of the source group and the stores db.
ExecutePage(kw, evs, db) ==
    Only({IF parsed.status # "ok" THEN PageFailed(parsed.status, db)
          ELSE ExecuteArgs(parsed.value[1], evs, db) :
            parsed \in {UnmergeArgsParseArguments(kw)}})

VARIABLES
    decideIn,   \* policy check: the replacement, event and locked set decide is called with
    decideOut,  \* policy check: <<>>, or <<key>> once decide has returned
    decideRaised, \* policy check: <<>>, or <<status>>: "ok" or the exception of the call
    argIn,      \* serialization check: the task arguments to dump
    argDumped,  \* serialization check: <<>>, or <<kw>> once dumped
    argParsed,  \* serialization check: <<>>, or <<result>> once parsed back
    request,    \* run: the unmerge asked for (replacement, batch size, table before)
    events,     \* run: the events of the source group, in cursor order
    queue,      \* run: <<>>, or <<kw>>: the keyword arguments of the enqueued task
    pc,         \* run: "idle", "queued", "terminal" or "failed"
    db,         \* run: the stores (table, groups, streams, activity, resets)
    audit,      \* run: what the pages did, event by event and page by page
    lastTask,   \* run: <<>>, or <<kw>>: the arguments of the page executed last
    aborted,    \* run: <<>>, or <<[page, clean, call, count, redone]>>: the page
                \*      aborted last, the stores before its first attempt, the
                \*      call that failed, the aborts so far, and whether the page
                \*      has been executed since (page, clean and call are forgotten then)
    parseIn,    \* parse check: the keyword arguments parse_arguments is called with
    parseOut,   \* parse check: <<>>, or <<result>> once parsed
    parseDumped, \* parse check: <<>>, or <<kw>>: the parsed task dumped again
    tbl,        \* table check: the Hash Lock Table
    tblOp,      \* table check: <<>>, or <<op>>: the reassignment applied last
    tblSteps,   \* table check: reassignments so far
    plans,      \* two runs: the reassignments of each run, in order
    progress,   \* two runs: how many of its reassignments each run has applied
    touched     \* two runs: the hashes whose rows each run has changed

policyVars == <<decideIn, decideOut, decideRaised>>

argVars == <<argIn, argDumped, argParsed>>

runVars == <<request, events, queue, pc, db, audit, lastTask>>

parseVars == <<parseIn, parseOut, parseDumped>>

tableVars == <<tbl, tblOp, tblSteps>>

twoVars == <<plans, progress, touched>>

vars == <<decideIn, decideOut, decideRaised, argIn, argDumped, argParsed,
          request, events, queue, pc, db, audit, lastTask, aborted,
          parseIn, parseOut, parseDumped, tbl, tblOp, tblSteps,
          plans, progress, touched>>

\* the variables of the other checks, at rest
ArgIdle == argIn = <<>> /\ argDumped = <<>> /\ argParsed = <<>>

PolicyIdle == decideIn = <<>> /\ decideOut = <<>> /\ decideRaised = <<>>

ParseIdle == parseIn = <<>> /\ parseOut = <<>> /\ parseDumped = <<>>

TableIdle == tbl = {} /\ tblOp = <<>> /\ tblSteps = 0

TwoIdle == plans = <<>> /\ progress = <<>> /\ touched = <<>>

RunIdle ==
    /\ request = <<>> /\ events = <<>> /\ queue = <<>> /\ pc = "idle"
    /\ db = <<>> /\ audit = <<>> /\ lastTask = <<>> /\ aborted = <<>>

(***************************************************************************)
(* SpecPolicy: decide applied to every replacement, event and locked set   *)
(* within the bounds.                                                      *)
(***************************************************************************)
PolicyEvents ==
    {Event(p, FALSE, <<>>) : p \in {"h1", "h2"}}
    \cup {Event(p, TRUE, hh) : p \in {"h1", "h2"}, hh \in SeqsUpTo(HierHashes, MaxSeqLen)}

PolicyReplacements ==
    {FlatReplacement(f) : f \in SUBSET {"h1", "h2"}}
    \cup {HierarchicalReplacement(p, fh, fl, nl, FALSE, {}) :
            p \in {"h1"}, fh \in HierHashes, fl \in Levels, nl \in Levels}

PolicyInit ==
    /\ decideIn \in [replacement : PolicyReplacements,
                     event : PolicyEvents,
                     locked : SUBSET {"h1", "h2"}]
    /\ decideOut = <<>>
    /\ decideRaised = <<>>
    /\ ArgIdle
    /\ RunIdle
    /\ ParseIdle /\ TableIdle /\ TwoIdle

Decide ==
    /\ decideIn # <<>>
    /\ decideRaised = <<>>
    /\ \E out \in {get_unmerge_key_outcome(decideIn.replacement, decideIn.event, decideIn.locked)} :
           /\ decideRaised' = <<out.status>>
           /\ decideOut' = IF out.status = "ok"
                           THEN <<get_unmerge_key(decideIn.replacement, decideIn.event,
                                                  decideIn.locked)>>
                           ELSE <<>>
    /\ UNCHANGED <<decideIn, argVars, runVars, aborted, parseVars, tableVars, twoVars>>

PolicyNext == Decide

SpecPolicy == PolicyInit /\ [][PolicyNext]_vars

\* decide has returned, for a replacement of the given kind
Decided(kind) == decideOut # <<>> /\ decideIn.replacement.kind = kind

\* the 1-based place in seq that Python's seq[i] reads, 0 if there is none
PlaceOf(seq, i) ==
    IF i >= 0 THEN (IF i + 1 <= Len(seq) THEN i + 1 ELSE 0)
    ELSE (IF Len(seq) + i >= 0 THEN Len(seq) + i + 1 ELSE 0)

\* C1: the flat policy returns the constant key "default" exactly when the
\* event's primary hash is in the fingerprint set and in the locked set, and
\* None otherwise.
C1_FlatDecide ==
    Decided("flat") =>
        LET e == decideIn.event
            hit == e.primary \in decideIn.replacement.fingerprints /\ e.primary \in decideIn.locked
        IN  /\ hit => decideOut[1] = "default"
            /\ ~hit => decideOut[1] = NoneKey

\* C1 witness: a fingerprint that is not locked is decided None
C1_Witness ==
    /\ Decided("flat")
    /\ decideIn.event.primary \in decideIn.replacement.fingerprints
    /\ decideIn.event.primary \notin decideIn.locked
    /\ decideOut[1] = NoneKey

\* C2: the hierarchical policy returns a key exactly when the primary hash
\* is the policy's primary_hash and the event's hash sequence has an entry at
\* position filter_level (a Python position: a negative one counts from the
\* end) that equals filter_hierarchical_hash.
C2_HierDecideMatches ==
    Decided("hier") =>
        LET e == decideIn.event
            r == decideIn.replacement
            at == PlaceOf(e.hh, r.filter_level)
            match == /\ e.primary = r.primary_hash
                     /\ e.has_hh
                     /\ at # 0
                     /\ e.hh[at] = r.filter_hierarchical_hash
        IN  (decideOut[1] # NoneKey) <=> match

\* C2 witness: the primary hash matches and the sequence is too short for
\* filter_level, so decide returns None
C2_Witness ==
    /\ Decided("hier")
    /\ decideIn.event.primary = decideIn.replacement.primary_hash
    /\ decideIn.event.has_hh
    /\ Len(decideIn.event.hh) = 2
    /\ decideIn.replacement.filter_level = 2
    /\ decideOut[1] = NoneKey

\* C3: on a match the key is the entry at position new_level when the
\* sequence has that position and the last entry otherwise; a match never
\* yields None because of new_level.
C3_HierKey ==
    Decided("hier") =>
        LET e == decideIn.event
            r == decideIn.replacement
            fat == PlaceOf(e.hh, r.filter_level)
            nat == PlaceOf(e.hh, r.new_level)
            match == /\ e.primary = r.primary_hash
                     /\ e.has_hh
                     /\ fat # 0
                     /\ e.hh[fat] = r.filter_hierarchical_hash
        IN  match =>
              /\ decideOut[1] # NoneKey
              /\ nat # 0 => decideOut[1] = e.hh[nat]
              /\ nat = 0 => decideOut[1] = e.hh[Len(e.hh)]

\* C3 witness: a sequence of length 3 with new_level = 5 yields its last entry
C3_Witness ==
    /\ Decided("hier")
    /\ Len(decideIn.event.hh) = 3
    /\ decideIn.replacement.new_level = 5
    /\ decideIn.event.hh[3] # decideIn.event.hh[1]
    /\ decideOut = <<decideIn.event.hh[3]>>

\* the event lacks the level the hierarchical policy filters on: it has no
\* hash sequence, an empty one, or one without the position filter_level
MissingLevel ==
    \/ ~decideIn.event.has_hh
    \/ decideIn.event.hh = <<>>
    \/ PlaceOf(decideIn.event.hh, decideIn.replacement.filter_level) = 0

\* C14: decide of either variant returns a value for every event and raises
\* nothing; the hierarchical variant returns None for an event without a
\* hash sequence, with an empty one, or with one too short to have an entry
\* at filter_level.
C14_DecideNeverRaises ==
    decideRaised # <<>> =>
        /\ decideRaised = <<"ok">>
        /\ decideOut # <<>>
        /\ decideOut[1] = get_unmerge_key_outcome(decideIn.replacement, decideIn.event,
                                                  decideIn.locked).value[1]
        /\ (decideIn.replacement.kind = "hier" /\ MissingLevel) => decideOut = <<NoneKey>>

\* C14 witness: the hierarchical policy has returned None for an event of its
\* primary hash that carries no hash sequence, and for no other reason
C14_Witness ==
    /\ decideRaised = <<"ok">>
    /\ decideIn.replacement.kind = "hier"
    /\ decideIn.event.primary = decideIn.replacement.primary_hash
    /\ ~decideIn.event.has_hh
    /\ decideOut = <<NoneKey>>

(***************************************************************************)
(* SpecArgs: task arguments dumped by dump_arguments and parsed back by    *)
(* parse_arguments.                                                        *)
(***************************************************************************)
ArgReplacements ==
    {FlatReplacement({"h1"}), FlatReplacement({}),
     HierarchicalReplacement("h1", "h2", 0, 1, TRUE, {"h3"})}

\* cursors: absent, and two event positions
ArgCursors == {<<>>, <<0>>, <<1>>}

ArgDestinations ==
    {EmptyMap,
     [k \in {"default"} |-> Destination(3, <<>>)],
     [k \in {"default"} |-> Destination(3, <<StreamState("flat", "default", 1, 3)>>)],
     [k \in {"h1", "h2"} |->
        Destination(IF k = "h1" THEN 3 ELSE 4,
                    <<StreamState("hier", k, 1, IF k = "h1" THEN 3 ELSE 4)>>)]}

ArgValues ==
    {InitialUnmergeArgs(ProjectId, SourceId, r, ActorId, b, d) :
        r \in ArgReplacements, b \in {1, DefaultBatchSize}, d \in ArgDestinations}
    \cup
    {SuccessiveUnmergeArgs(ProjectId, SourceId, r, ActorId, b, c, l, d, f) :
        r \in ArgReplacements, b \in {1, DefaultBatchSize}, c \in ArgCursors,
        l \in SUBSET {"h1", "h2"}, d \in ArgDestinations, f \in BOOLEAN}

ArgsInit ==
    /\ argIn \in {<<a>> : a \in ArgValues}
    /\ argDumped = <<>>
    /\ argParsed = <<>>
    /\ PolicyIdle
    /\ RunIdle
    /\ ParseIdle /\ TableIdle /\ TwoIdle

DumpArgs ==
    /\ argIn # <<>>
    /\ argDumped = <<>>
    /\ argDumped' = <<UnmergeArgsDumpArguments(argIn[1])>>
    /\ UNCHANGED <<argIn, argParsed, policyVars, runVars, aborted, parseVars, tableVars, twoVars>>

ParseArgs ==
    /\ argDumped # <<>>
    /\ argParsed = <<>>
    /\ argParsed' = <<UnmergeArgsParseArguments(argDumped[1])>>
    /\ UNCHANGED <<argIn, argDumped, policyVars, runVars, aborted, parseVars, tableVars, twoVars>>

ArgsNext == DumpArgs \/ ParseArgs

SpecArgs == ArgsInit /\ [][ArgsNext]_vars

\* C10 as claimed: every task, a successive one without a cursor included,
\* is parsed back from its dump as the same task.
C10_RoundTripAnyCursor ==
    argParsed # <<>> => argParsed[1] = Ok(argIn[1])

\* C10, amended: every initial task, and every successive task whose cursor
\* is present, is parsed back from its dump as a task of the same phase with
\* the same replacement (variant and fields), cursor, locked-hash set,
\* destinations and source_fields_reset.
C10_RoundTrip ==
    (argParsed # <<>> /\ (argIn[1].class = "InitialUnmergeArgs" \/ argIn[1].last_event # <<>>))
        => argParsed[1] = Ok(argIn[1])

\* C10 witness: a successive task of the hierarchical variant with an empty
\* locked-hash set and the reset flag set has been dumped and parsed back
C10_Witness ==
    /\ argParsed # <<>>
    /\ argIn[1].class = "SuccessiveUnmergeArgs"
    /\ argIn[1].replacement.kind = "hier"
    /\ argIn[1].locked_primary_hashes = {}
    /\ argIn[1].source_fields_reset
    /\ argIn[1].last_event = <<1>>
    /\ DOMAIN argIn[1].destinations = {"h1", "h2"}
    /\ argParsed[1].status = "ok"

(***************************************************************************)
(* SpecParse: parse_arguments called with keyword arguments of every       *)
(* shape, legacy and canonical, and the parsed task dumped again.          *)
(***************************************************************************)
\* values of the legacy parameters fingerprints and destination_id
LegacyFingerprints == {<<>>, <<{}>>, <<{"h1"}>>}

LegacyDestinationIds == {<<>>, <<FirstNewGroupId>>}

\* values of the replacement parameter: None, the two variants, and a plain
\* dict, which is no UnmergeReplacement
ParseReplacements ==
    {<<>>, <<FlatReplacement({"h2"})>>,
     <<HierarchicalReplacement("h1", "h2", 0, 1, TRUE, {"h3"})>>,
     <<ReplacementAsDict(FlatReplacement({"h2"}))>>}

ParseDestinations ==
    {<<>>, <<EmptyMap>>, <<[k \in {"default"} |-> Destination(FirstNewGroupId + 1, <<>>)]>>}

\* calls that pass every parameter, calls that pass the required ones only,
\* and a call that leaves a required one out
ParseKeywords ==
    [project_id : {ProjectId}, source_id : {SourceId}, actor_id : {ActorId},
     destination_id : LegacyDestinationIds, fingerprints : LegacyFingerprints,
     last_event : {<<>>, <<1>>}, batch_size : {DefaultBatchSize},
     source_fields_reset : BOOLEAN,
     eventstream_state : {<<>>, <<StreamState("unmerge", NoneKey, SourceId, FirstNewGroupId)>>},
     replacement : ParseReplacements,
     locked_primary_hashes : {<<>>, <<{}>>, <<{"h2"}>>},
     destinations : ParseDestinations]
    \cup
    [project_id : {ProjectId}, source_id : {SourceId}, actor_id : {ActorId},
     destination_id : LegacyDestinationIds, fingerprints : LegacyFingerprints]
    \cup
    [project_id : {ProjectId}, source_id : {SourceId}, actor_id : {ActorId},
     fingerprints : LegacyFingerprints]

ParseInit ==
    /\ parseIn \in {<<kw>> : kw \in ParseKeywords}
    /\ parseOut = <<>>
    /\ parseDumped = <<>>
    /\ PolicyIdle
    /\ ArgIdle
    /\ RunIdle
    /\ TableIdle /\ TwoIdle

ParseKw ==
    /\ parseIn # <<>>
    /\ parseOut = <<>>
    /\ parseOut' = <<UnmergeArgsParseArguments(parseIn[1])>>
    /\ UNCHANGED <<parseIn, parseDumped, policyVars, argVars, runVars, aborted, tableVars, twoVars>>

DumpParsed ==
    /\ parseOut # <<>>
    /\ parseOut[1].status = "ok"
    /\ parseDumped = <<>>
    /\ parseDumped' = <<UnmergeArgsDumpArguments(parseOut[1].value[1])>>
    /\ UNCHANGED <<parseIn, parseOut, policyVars, argVars, runVars, aborted, tableVars, twoVars>>

ParseNext == ParseKw \/ DumpParsed

SpecParse == ParseInit /\ [][ParseNext]_vars

\* the call passes every parameter that has no default
ParsedCall == parseOut # <<>> /\ RequiredParams \subseteq DOMAIN parseIn[1]

\* the value the call binds to a parameter
Passed(name) == Param(parseIn[1], name, IF name = "source_fields_reset" THEN FALSE ELSE <<>>)

\* C11: whatever arguments a task was parsed from, dump_arguments emits
\* fingerprints and destination_id as None, the replacement object of the
\* task itself (one of the two variants, not a dict of its fields) and the
\* destinations map of the task.
C11_DumpDropsLegacy ==
    parseDumped # <<>> =>
        LET a == parseOut[1].value[1]
            d == parseDumped[1]
        IN  /\ d.fingerprints = <<>>
            /\ d.destination_id = <<>>
            /\ d.replacement = <<a.replacement>>
            /\ IsUnmergeReplacement(d.replacement[1])
            /\ Passed("replacement") # <<>> => d.replacement = Passed("replacement")
            /\ Passed("replacement") = <<>> =>
                  d.replacement = <<FlatReplacement(Passed("fingerprints")[1])>>
            /\ d.destinations = <<a.destinations>>
            /\ Passed("destinations") # <<>> => d.destinations = Passed("destinations")

\* C11 witness: a task parsed from the legacy arguments alone (fingerprints
\* and a destination id) is dumped with both as None, a flat replacement of
\* the fingerprints and a destinations map holding the destination id
C11_Witness ==
    /\ parseDumped # <<>>
    /\ Passed("fingerprints") = <<{"h1"}>>
    /\ Passed("destination_id") = <<FirstNewGroupId>>
    /\ Passed("replacement") = <<>>
    /\ Passed("destinations") = <<>>
    /\ parseDumped[1].fingerprints = <<>>
    /\ parseDumped[1].replacement = <<FlatReplacement({"h1"})>>
    /\ parseDumped[1].destinations[1]["default"].group = FirstNewGroupId

\* C12 as claimed: with a replacement object and a destinations map passed,
\* the result of parse_arguments is the same whatever the legacy arguments
\* fingerprints and destination_id are.
C12_LegacyNeverRead ==
    (ParsedCall /\ Passed("replacement") # <<>> /\ Passed("destinations") # <<>>) =>
        \A f \in LegacyFingerprints, d \in LegacyDestinationIds :
            UnmergeArgsParseArguments(
                [parseIn[1] EXCEPT !.fingerprints = f, !.destination_id = d]) = parseOut[1]

\* C13 as claimed: a call with a cursor fails whenever locked_primary_hashes
\* is missing, and whenever both the destinations map and the destination
\* id are missing.
C13_MalformedRejected ==
    (ParsedCall /\ Passed("last_event") # <<>>
        /\ (\/ Passed("locked_primary_hashes") = <<>>
            \/ (Passed("destinations") = <<>> /\ Passed("destination_id") = <<>>)))
    => (parseOut[1].status # "ok" /\ parseOut[1].value = <<>>)

\* C13, amended: a call with a cursor fails, and yields no task, exactly
\* when neither locked_primary_hashes nor fingerprints is passed or the
\* replacement is no replacement object (AssertionError), or when neither a
\* replacement nor fingerprints is passed (TypeError).  With
\* locked_primary_hashes missing the fingerprints are the locked set, and
\* with the destinations map and the destination id missing the task has
\* an empty destinations map.
C13_SuccessiveRejection ==
    (ParsedCall /\ Passed("last_event") # <<>>) =>
        LET noLocked == Passed("locked_primary_hashes") = <<>>
            noPrints == Passed("fingerprints") = <<>>
            noRepl == Passed("replacement") = <<>>
            res == parseOut[1]
        IN  /\ res.status = "AssertionError" <=>
                  \/ noLocked /\ noPrints
                  \/ ~noRepl /\ ~IsUnmergeReplacement(Passed("replacement")[1])
            /\ res.status = "TypeError" <=> (~noLocked /\ noPrints /\ noRepl)
            /\ res.status \in {"ok", "AssertionError", "TypeError"}
            /\ res.status # "ok" => res.value = <<>>
            /\ res.status = "ok" =>
                  /\ res.value[1].class = "SuccessiveUnmergeArgs"
                  /\ noLocked => res.value[1].locked_primary_hashes = Passed("fingerprints")[1]
                  /\ (Passed("destinations") = <<>> /\ Passed("destination_id") = <<>>)
                        => res.value[1].destinations = EmptyMap

\* C13 witness: a call with a cursor, a replacement and a destinations map
\* but neither locked_primary_hashes nor fingerprints was rejected
C13_Witness ==
    /\ ParsedCall
    /\ Passed("last_event") # <<>>
    /\ Passed("locked_primary_hashes") = <<>>
    /\ Passed("fingerprints") = <<>>
    /\ Passed("replacement") = <<FlatReplacement({"h2"})>>
    /\ Passed("destinations") # <<>>
    /\ parseOut[1] = Raise("AssertionError")

\* C20: parse_arguments yields an InitialUnmergeArgs exactly when no cursor
\* is passed and a SuccessiveUnmergeArgs otherwise; a call without a cursor
\* that passes a stream state or source_fields_reset = true fails with an
\* AssertionError; an InitialUnmergeArgs has no locked-hash set, cursor or
\* reset flag.
C20_PhaseFromCursor ==
    ParsedCall =>
        LET res == parseOut[1]
        IN  /\ res.status = "ok" =>
                  /\ res.value[1].class = "InitialUnmergeArgs" <=> Passed("last_event") = <<>>
                  /\ res.value[1].class = "SuccessiveUnmergeArgs" <=> Passed("last_event") # <<>>
                  /\ res.value[1].class = "SuccessiveUnmergeArgs" =>
                        res.value[1].last_event = Passed("last_event")
                  /\ res.value[1].class = "InitialUnmergeArgs" =>
                        DOMAIN res.value[1] =
                            {"class", "project_id", "source_id", "replacement", "actor_id",
                             "batch_size", "destinations"}
            /\ (Passed("last_event") = <<>>
                  /\ (Passed("eventstream_state") # <<>> \/ Passed("source_fields_reset")))
                => res = Raise("AssertionError")

\* C20 witness: a call without a cursor that passes a locked-hash set and a
\* destinations map yields an InitialUnmergeArgs
C20_Witness ==
    /\ ParsedCall
    /\ Passed("last_event") = <<>>
    /\ Passed("locked_primary_hashes") = <<{"h2"}>>
    /\ Passed("destinations") # <<>>
    /\ parseOut[1].status = "ok"
    /\ parseOut[1].value[1].class = "InitialUnmergeArgs"

(***************************************************************************)
(* SpecTable: row reassignments of both variants applied to the Hash Lock  *)
(* Table of one project, in any order.                                     *)
(***************************************************************************)
\* most reassignments applied to a table
MaxReassigns == 3

TableHashes == {"h1", "h2", "h3"}

\* destination groups of the reassignments
TableGroups == {FirstNewGroupId, FirstNewGroupId + 1}

\* the tables to start from: one row at most for every hash
TableStarts ==
    {r1 \cup r2 \cup r3 :
        r1 \in {{}, {Row(1, "h1", SourceId, "Unlocked")}, {Row(1, "h1", SourceId, "Locked")}},
        r2 \in {{}, {Row(2, "h2", SourceId, "Split")}, {Row(2, "h2", OtherId, "Unlocked")}},
        r3 \in {{}, {Row(3, "h3", SourceId, "Split")}, {Row(3, "h3", SourceId, "Locked")}}}

TableResets == {{}, {"h2"}, {"h2", "h3"}}

\* a reassignment: the replacement, the arguments and the table it found
TableOp(r, key, dest, locked, before) ==
    [r |-> r, key |-> key, dest |-> dest, locked |-> locked, before |-> before]

TableInit ==
    /\ tbl \in TableStarts
    /\ tblOp = <<>>
    /\ tblSteps = 0
    /\ PolicyIdle
    /\ ArgIdle
    /\ RunIdle
    /\ ParseIdle /\ TwoIdle

FlatReassign ==
    /\ tblSteps < MaxReassigns
    /\ \E locked \in SUBSET {"h1", "h2"}, dest \in TableGroups :
           /\ tbl' = run_postgres_replacement(FlatReplacement({"h1", "h2"}), tbl,
                                              _DEFAULT_UNMERGE_KEY, dest, locked)
           /\ tblOp' = <<TableOp(FlatReplacement({"h1", "h2"}), _DEFAULT_UNMERGE_KEY,
                                 dest, locked, tbl)>>
    /\ tblSteps' = tblSteps + 1
    /\ UNCHANGED <<policyVars, argVars, runVars, aborted, parseVars, twoVars>>

HierReassign ==
    /\ tblSteps < MaxReassigns
    /\ \E key \in TableHashes, dest \in TableGroups, reset \in TableResets,
          locked \in {{}, {"h1"}} :
           \E r \in {HierarchicalReplacement("h1", "h2", 0, 1, FALSE, reset)} :
               /\ tbl' = run_postgres_replacement(r, tbl, key, dest, locked)
               /\ tblOp' = <<TableOp(r, key, dest, locked, tbl)>>
    /\ tblSteps' = tblSteps + 1
    /\ UNCHANGED <<policyVars, argVars, runVars, aborted, parseVars, twoVars>>

TableNext == FlatReassign \/ HierReassign

SpecTable == TableInit /\ [][TableNext]_vars

\* C15: after any sequence of flat and hierarchical row reassignments the
\* table holds at most one row, and so at most one owning group, for every
\* hash of the project.
C15_OneOwner ==
    \A row, other \in tbl : row.hash = other.hash => row = other

\* C15 witness: a hierarchical reassignment has inserted the row of a key
\* that had none, after an earlier reassignment
C15_Witness ==
    /\ tblSteps >= 2
    /\ tblOp # <<>>
    /\ tblOp[1].r.kind = "hier"
    /\ \A row \in tblOp[1].before : row.hash # tblOp[1].key
    /\ \E row \in tbl : row.hash = tblOp[1].key /\ row.group = tblOp[1].dest
    /\ Cardinality(tbl) = Cardinality(tblOp[1].before) + 1

\* the row that a hierarchical reassignment makes of a row it found
HierExpected(op, row) ==
    [row EXCEPT
        !.state = IF row.hash \in op.r.reset_hashes /\ row.state = "Split"
                  THEN "Unlocked" ELSE @,
        !.group = IF row.hash = op.key THEN op.dest ELSE @]

\* C19: a hierarchical row reassignment turns the Split rows of the reset
\* set Unlocked, makes the destination group the owner of the key's row
\* (inserting the row if there is none), and changes nothing else: rows of
\* the reset set in another state and rows outside it keep state and owner,
\* and the result is the same for every locked-hash set.
C19_HierFrame ==
    (tblOp # <<>> /\ tblOp[1].r.kind = "hier") =>
        LET op == tblOp[1]
            had == \E row \in op.before : row.hash = op.key
        IN  /\ \A row \in op.before : HierExpected(op, row) \in tbl
            /\ \A row \in tbl :
                  \/ \E old \in op.before : row = HierExpected(op, old)
                  \/ ~had /\ row.hash = op.key /\ row.group = op.dest
                         /\ \A old \in op.before : old.id # row.id
            /\ Cardinality(tbl) = Cardinality(op.before) + (IF had THEN 0 ELSE 1)
            /\ \E row \in tbl : row.hash = op.key /\ row.group = op.dest
            /\ \A locked \in SUBSET TableHashes :
                  HierarchicalRunPostgresReplacement(op.r, op.before, op.key, op.dest, locked) = tbl

\* C19 witness: a reassignment with reset set {h2, h3} found h2 Split and
\* h3 Locked and no row of its key h1; h2 is Unlocked now, h3 is Locked as
\* before, and h1 has a row owned by the destination group
C19_Witness ==
    /\ tblOp # <<>>
    /\ tblOp[1].r.kind = "hier"
    /\ tblOp[1].r.reset_hashes = {"h2", "h3"}
    /\ tblOp[1].key = "h1"
    /\ tblOp[1].locked = {"h1"}
    /\ Row(2, "h2", SourceId, "Split") \in tblOp[1].before
    /\ Row(3, "h3", SourceId, "Locked") \in tblOp[1].before
    /\ Cardinality(tblOp[1].before) = 2
    /\ Row(2, "h2", SourceId, "Unlocked") \in tbl
    /\ Row(3, "h3", SourceId, "Locked") \in tbl
    /\ \E row \in tbl : row.hash = "h1" /\ row.group = tblOp[1].dest

(***************************************************************************)
(* SpecTwoRuns: two unmerge runs of one project write to the same Hash     *)
(* Lock Table, their writes interleaved in any order.  A run is its        *)
(* replacement and the writes of its pages in order: "lock" for the        *)
(* locking of the hashes by the first page, and the destination key of     *)
(* every row reassignment.                                                 *)
(***************************************************************************)
TwoRunNames == {"A", "B"}

RunPlan(r, ops) == [r |-> r, ops |-> ops]

PlansA ==
    {RunPlan(FlatReplacement({"h1"}), <<"lock", "default", "default">>),
     RunPlan(FlatReplacement({"h1", "h2"}), <<"lock", "default">>),
     RunPlan(HierarchicalReplacement("h1", "h2", 0, 1, FALSE, {"h2"}), <<"h3", "h4">>)}

PlansB ==
    {RunPlan(HierarchicalReplacement("h1", "h2", 0, 1, FALSE, {"h2"}), <<"h3", "h4">>),
     RunPlan(HierarchicalReplacement("h1", "h2", 0, 1, TRUE, {}), <<"h4", "h3", "h4">>),
     RunPlan(HierarchicalReplacement("h1", "h2", 0, 1, TRUE, {"h5"}), <<"h4", "h5">>),
     RunPlan(FlatReplacement({"h3"}), <<"lock", "default">>)}

TwoStarts ==
    {r1 \cup r2 \cup r3 \cup r4 \cup r5 :
        r1 \in {{Row(1, "h1", SourceId, "Unlocked")}, {Row(1, "h1", SourceId, "Locked")}},
        r2 \in {{}, {Row(2, "h2", SourceId, "Split")}, {Row(2, "h2", SourceId, "Unlocked")}},
        r3 \in {{}, {Row(3, "h3", OtherId, "Unlocked")}},
        r4 \in {{}, {Row(4, "h4", SourceId, "Split")}},
        r5 \in {{}, {Row(5, "h5", SourceId, "Split")}}}

\* the destination group of a key of a run: every run has groups of its own
DestOf(run, key) ==
    (IF run = "A" THEN FirstNewGroupId ELSE FirstNewGroupId + 3)
        + (IF key = "h4" THEN 1 ELSE IF key = "h5" THEN 2 ELSE 0)

\* the hash set of a run: its fingerprints, or its keys and its reset set
OwnHashes(plan) ==
    IF plan.r.kind = "flat" THEN plan.r.fingerprints
    ELSE plan.r.reset_hashes \cup {plan.ops[i] : i \in DOMAIN plan.ops}

\* one write of a run: the table and the locked set of the run after it
WriteOf(run, plan, op, table, locked) ==
    IF op = "lock"
    THEN lockHashes(table, primary_hashes_to_lock(plan.r))
    ELSE [table |-> run_postgres_replacement(plan.r, table, op, DestOf(run, op), locked),
          locked |-> locked]

\* the writes of a run from place i on, one after the other
RECURSIVE WritesFrom(_, _, _, _, _)
WritesFrom(run, plan, i, table, locked) ==
    IF i > Len(plan.ops) THEN table
    ELSE LET res == WriteOf(run, plan, plan.ops[i], table, locked)
         IN  WritesFrom(run, plan, i + 1, res.table, res.locked)

\* what the table says: the owner and state of every hash
Owners(table) == {[hash |-> row.hash, group |-> row.group, state |-> row.state] : row \in table}

\* the hashes whose rows differ between two tables
ChangedHashes(before, after) ==
    {row.hash : row \in (before \ after) \cup (after \ before)}

TwoInit ==
    /\ plans \in [A : PlansA, B : PlansB, start : TwoStarts]
    /\ tbl = plans.start
    /\ progress = [run \in TwoRunNames |-> [done |-> 0, locked |-> {}]]
    /\ touched = [run \in TwoRunNames |-> {}]
    /\ tblOp = <<>> /\ tblSteps = 0
    /\ PolicyIdle
    /\ ArgIdle
    /\ RunIdle
    /\ ParseIdle

\* the next write of a run
RunWrites(run) ==
    /\ plans # <<>>
    /\ progress[run].done < Len(plans[run].ops)
    /\ \E res \in {WriteOf(run, plans[run], plans[run].ops[progress[run].done + 1],
                            tbl, progress[run].locked)} :
           /\ tbl' = res.table
           /\ progress' = [progress EXCEPT ![run] = [done |-> @.done + 1, locked |-> res.locked]]
           /\ touched' = [touched EXCEPT ![run] = @ \cup ChangedHashes(tbl, res.table)]
    /\ UNCHANGED <<plans, tblOp, tblSteps, policyVars, argVars, runVars, aborted, parseVars>>

WriteA == RunWrites("A")

WriteB == RunWrites("B")

TwoNext == WriteA \/ WriteB

SpecTwoRuns == TwoInit /\ [][TwoNext]_vars

BothDone == \A run \in TwoRunNames : progress[run].done = Len(plans[run].ops)

\* C18: when the hash sets of the two runs are disjoint, every run changes
\* rows of its own hashes only, and when both are done the table holds the
\* owners and states that it holds after running one run and then the
\* other, in either order.
C18_DisjointRunsCommute ==
    (plans # <<>> /\ OwnHashes(plans.A) \cap OwnHashes(plans.B) = {}) =>
        /\ \A run \in TwoRunNames : touched[run] \subseteq OwnHashes(plans[run])
        /\ BothDone =>
              /\ Owners(tbl) =
                    Owners(WritesFrom("B", plans.B, 1,
                               WritesFrom("A", plans.A, 1, plans.start, {}), {}))
              /\ Owners(tbl) =
                    Owners(WritesFrom("A", plans.A, 1,
                               WritesFrom("B", plans.B, 1, plans.start, {}), {}))

\* C18 witness: a flat run and a hierarchical run with disjoint hash sets are
\* both done; the flat run moved h1 and h2, the hierarchical run unlocked
\* and moved h5 and wrote h4
C18_Witness ==
    /\ plans # <<>>
    /\ OwnHashes(plans.A) \cap OwnHashes(plans.B) = {}
    /\ BothDone
    /\ plans.A.r.kind = "flat"
    /\ plans.B.r.kind = "hier"
    /\ touched.A = {"h1", "h2"}
    /\ touched.B = {"h4", "h5"}
    /\ \E row \in tbl : row.hash = "h1" /\ row.group = DestOf("A", "default")
    /\ \E row \in tbl : row.hash = "h5" /\ row.group = DestOf("B", "h5") /\ row.state = "Unlocked"

(***************************************************************************)
(* Spec: an unmerge run, page after page, each task executed once.         *)
(***************************************************************************)
\* most events of a source group
MaxEvents == 3
\* largest batch size
MaxBatch == 2

\* no run takes more pages than this
MaxPages == MaxEvents + 2

RunEvents ==
    {Event("h1", FALSE, <<>>), Event("h2", FALSE, <<>>),
     Event("h1", TRUE, <<"h2", "h3">>), Event("h1", TRUE, <<"h2">>)}

RunReplacements ==
    {FlatReplacement({"h1"}), FlatReplacement({"h1", "h2"}),
     HierarchicalReplacement("h1", "h2", 0, 1, FALSE, {}),
     HierarchicalReplacement("h1", "h2", 0, 1, TRUE, {"h2", "h3"})}

\* the tables a run starts from: one row at most for every hash
RunTables ==
    {r1 \cup r2 \cup r3 :
        r1 \in {{Row(1, "h1", SourceId, "Unlocked")}},
        r2 \in {{}, {Row(2, "h2", SourceId, "Unlocked")}, {Row(2, "h2", OtherId, "Locked")}},
        r3 \in {{}, {Row(3, "h3", SourceId, "Split")}}}

NewDb(table) ==
    [table |-> table, nextGroup |-> FirstNewGroupId, opened |-> {},
     ends |-> NoCounts, excluded |-> NoCounts, activity |-> NoCounts,
     resets |-> 0, finishes |-> 0]

NewAudit(evs) ==
    [delivered |-> [i \in DOMAIN evs |-> 0],
     routes |-> [i \in DOMAIN evs |-> {}],
     pages |-> 0, resetPages |-> {}, successive |-> FALSE,
     locked |-> <<>>, created |-> {}, retries |-> 0,
     keys |-> <<>>, assigned |-> <<>>]

RunInit ==
    /\ RunIdle
    /\ PolicyIdle
    /\ ArgIdle
    /\ ParseIdle /\ TableIdle /\ TwoIdle

\* an unmerge of the source group is asked for: the initial task is enqueued
Submit ==
    /\ pc = "idle"
    /\ request' \in [replacement : RunReplacements, batch_size : 1..MaxBatch, table : RunTables]
    /\ events' \in SeqsUpTo(RunEvents, MaxEvents)
    /\ queue' = <<UnmergeArgsDumpArguments(
                    InitialUnmergeArgs(ProjectId, SourceId, request'.replacement, ActorId,
                                       request'.batch_size, EmptyMap))>>
    /\ pc' = "queued"
    /\ db' = NewDb(request'.table)
    /\ audit' = NewAudit(events')
    /\ lastTask' = <<>>
    /\ UNCHANGED <<policyVars, argVars, aborted, parseVars, tableVars, twoVars>>

\* the enqueued task is a successive one
QueuedSuccessive(q) ==
    /\ q # <<>>
    /\ UnmergeArgsParseArguments(q[1]).status = "ok"
    /\ UnmergeArgsParseArguments(q[1]).value[1].class = "SuccessiveUnmergeArgs"

\* the audit after a page with the result res
Audited(a, res) ==
    [a EXCEPT
        !.delivered = [i \in DOMAIN @ |->
                          @[i] + (IF res.first < i /\ i <= res.last THEN 1 ELSE 0)],
        !.routes = [i \in DOMAIN @ |->
                       IF res.first < i /\ i <= res.last
                       THEN @[i] \cup {res.keys[i - res.first]} ELSE @[i]],
        !.pages = @ + 1,
        !.resetPages = IF res.reset THEN @ \cup {a.pages + 1} ELSE @,
        !.successive = @ \/ res.class = "SuccessiveUnmergeArgs" \/ QueuedSuccessive(res.queue),
        !.locked = IF @ = <<>> /\ res.status = "ok" THEN <<res.locked>> ELSE @,
        !.created = @ \cup res.created,
        !.keys = res.keys,
        !.assigned = res.assigned]

\* a worker takes the enqueued task and executes its page
RunPage ==
    /\ pc = "queued"
    /\ audit.pages < MaxPages
    /\ \E res \in {ExecutePage(queue[1], events, db)} :
           /\ pc' = IF res.status # "ok" THEN "failed"
                    ELSE IF res.queue = <<>> THEN "terminal" ELSE "queued"
           /\ queue' = res.queue
           /\ db' = res.db
           /\ audit' = Audited(audit, res)
    /\ lastTask' = queue
    /\ aborted' = IF aborted = <<>> THEN aborted
                  ELSE <<[aborted[1] EXCEPT !.page = 0, !.clean = <<>>,
                                             !.call = "none", !.redone = TRUE]>>
    /\ UNCHANGED <<request, events, policyVars, argVars, parseVars, tableVars, twoVars>>

Next == Submit \/ RunPage

Spec == RunInit /\ [][Next]_vars

(***************************************************************************)
(* What a run is expected to do, from the request alone.                   *)
(***************************************************************************)
\* the locked set the first page resolves
RunLocked == lockHashes(request.table, primary_hashes_to_lock(request.replacement)).locked

\* event i migrates
Migrates(i) == get_unmerge_key(request.replacement, events[i], RunLocked) # NoneKey

\* the page event i is on
PageOf(i) == ((i - 1) \div request.batch_size) + 1

\* ceil(total / batchSize)
PageCount == (Len(events) + request.batch_size - 1) \div request.batch_size

Running == pc \in {"queued", "terminal", "failed"}

\* C4: as the cursor advances no event is delivered twice and none is
\* skipped, every delivered event is routed to exactly one of stays and
\* moves-to-K, and at Terminal every event has been delivered to exactly one
\* page.
C4_ExactlyOnce ==
    Running =>
        /\ \A i \in DOMAIN events :
              /\ audit.delivered[i] <= 1
              /\ Cardinality(audit.routes[i]) = audit.delivered[i]
              /\ \A j \in DOMAIN events : (i < j /\ audit.delivered[j] = 1) => audit.delivered[i] = 1
        /\ pc = "terminal" => \A i \in DOMAIN events : audit.delivered[i] = 1
        /\ pc # "failed"

\* C4 witness: a run of three pages is at Terminal, with an event that moved
\* and an event that stayed
C4_Witness ==
    /\ pc = "terminal"
    /\ audit.pages = 3
    /\ \E i, j \in DOMAIN events : audit.routes[i] = {NoneKey} /\ audit.routes[j] = {"default"}

\* C6: the source-group field reset is performed at most once, on the first
\* page that holds a non-migrating event and on no page when there is none;
\* the flag of every successor task is true exactly when the reset has been
\* performed, so it never goes back to false.
C6_OneTimeReset ==
    Running =>
        LET seen == {i \in DOMAIN events : audit.delivered[i] >= 1 /\ ~Migrates(i)}
            first == CHOOSE i \in seen : \A j \in seen : i <= j
        IN  /\ db.resets = Cardinality(audit.resetPages)
            /\ audit.resetPages = IF seen = {} THEN {} ELSE {PageOf(first)}
            /\ queue # <<>> =>
                  /\ UnmergeArgsParseArguments(queue[1]).status = "ok"
                  /\ UnmergeArgsParseArguments(queue[1]).value[1].class = "SuccessiveUnmergeArgs"
                        => (UnmergeArgsParseArguments(queue[1]).value[1].source_fields_reset
                              <=> audit.resetPages # {})
            /\ pc = "terminal" =>
                  (db.resets = 1 <=> \E i \in DOMAIN events : ~Migrates(i))

\* C6 witness: the reset was performed on the second page, and the third
\* page held a non-migrating event as well
C6_Witness ==
    /\ pc = "terminal"
    /\ audit.pages = 3
    /\ audit.resetPages = {2}
    /\ db.resets = 1
    /\ ~Migrates(3)

\* no event of the source group matches the replacement policy
NoEventMigrates == \A i \in DOMAIN events : ~Migrates(i)

Max(a, b) == IF a >= b THEN a ELSE b

\* C7 as claimed: a run in which no event matches never produces a
\* Successive task.
C7_NeverSuccessive ==
    (Running /\ NoEventMigrates) => ~audit.successive

\* C7, amended: a run in which no event matches reaches Terminal after
\* N = ceil(total/batchSize) pages (one page for an empty group); only its
\* first page is an Initial task, every later page is a Successive task with
\* an empty destination map, and no group or stream is ever created.
C7_NoMatchTerminates ==
    (Running /\ NoEventMigrates) =>
        /\ pc \in {"queued", "terminal"}
        /\ pc = "terminal" <=> audit.pages = Max(1, PageCount)
        /\ audit.pages <= Max(1, PageCount)
        /\ pc = "queued" /\ audit.pages >= 1 =>
              /\ QueuedSuccessive(queue)
              /\ UnmergeArgsParseArguments(queue[1]).value[1].destinations = EmptyMap
              /\ UnmergeArgsParseArguments(queue[1]).value[1].last_event
                     = <<audit.pages * request.batch_size>>
        /\ audit.successive <=> (audit.pages >= 1 /\ PageCount >= 2)
        /\ db.opened = {} /\ db.nextGroup = FirstNewGroupId /\ audit.created = {}

\* C7 witness: a run of three pages in which no event matched is at Terminal
C7_Witness ==
    /\ pc = "terminal"
    /\ NoEventMigrates
    /\ audit.pages = 3
    /\ audit.successive

\* the destination group of a flat run, once created
FlatDestination == FirstNewGroupId

\* C8: when a flat run is at Terminal, every locked fingerprint that an
\* event matched is owned by the one new destination group, and every hash
\* outside the locked set has the owner it had before the run.
C8_FlatOwners ==
    (pc = "terminal" /\ request.replacement.kind = "flat") =>
        /\ db.nextGroup <= FirstNewGroupId + 1
        /\ \A h \in RunLocked \cap request.replacement.fingerprints :
              (\E i \in DOMAIN events : events[i].primary = h) =>
                  /\ \E row \in db.table : row.hash = h
                  /\ \A row \in db.table : row.hash = h => row.group = FlatDestination
                  /\ audit.created = {"default"}
        /\ {[id |-> row.id, hash |-> row.hash, group |-> row.group] :
                row \in {x \in db.table : x.hash \notin RunLocked}}
             = {[id |-> row.id, hash |-> row.hash, group |-> row.group] :
                row \in {x \in request.table : x.hash \notin RunLocked}}

\* C8 witness: a flat run of three pages is at Terminal; its locked
\* fingerprint h1 moved to the new group, and its fingerprint h2, which
\* another group held locked, is where it was
C8_Witness ==
    /\ pc = "terminal"
    /\ request.replacement = FlatReplacement({"h1", "h2"})
    /\ audit.pages = 3
    /\ RunLocked = {"h1"}
    /\ \E i \in DOMAIN events : events[i].primary = "h2"
    /\ \E row \in db.table : row.hash = "h1" /\ row.group = FlatDestination
    /\ \E row \in db.table : row.hash = "h2" /\ row.group = OtherId

\* the streams, activity records and on_finish calls of a finished run
Finalized ==
    /\ \A s \in db.opened : s \in DOMAIN db.ends /\ db.ends[s] = 1
    /\ DOMAIN db.ends = db.opened
    /\ \A k \in audit.created :
          \E rec \in DOMAIN db.activity :
              /\ rec.key = k
              /\ db.activity[rec] = 1
              /\ \A other \in DOMAIN db.activity : other.key = k => other = rec
    /\ {rec.key : rec \in DOMAIN db.activity} = audit.created
    /\ db.finishes = 1
    /\ (request.replacement.kind = "hier" /\ request.replacement.assume_source_emptied)
          => (SourceId \in DOMAIN db.excluded /\ db.excluded[SourceId] = 1)

FairSpec == RunInit /\ [][Next]_vars /\ WF_vars(RunPage)

(***************************************************************************)
(* SpecFail: a call of a page to the Hash Lock Table or to the stream      *)
(* snapshots may fail; the page is aborted and the task, still enqueued,   *)
(* is executed again.                                                      *)
(***************************************************************************)
\* most aborted pages in a run
MaxAborts == 1

FailingCalls == {"begin", "reassign", "end"}

AbortPage ==
    /\ pc = "queued"
    /\ audit.pages < MaxPages
    /\ IF aborted = <<>> THEN TRUE ELSE aborted[1].count < MaxAborts
    /\ UnmergeArgsParseArguments(queue[1]).status = "ok"
    /\ \E done \in 0..MaxBatch, call \in FailingCalls :
           \E left \in {AbortedStores(UnmergeArgsParseArguments(queue[1]).value[1],
                                      events, db, done, call)} :
               /\ left # <<>>
               /\ db' = left[1]
               /\ aborted' =
                     <<[page |-> audit.pages,
                        clean |-> IF aborted = <<>> THEN db
                                  ELSE IF aborted[1].redone THEN db ELSE aborted[1].clean,
                        call |-> call,
                        count |-> IF aborted = <<>> THEN 1 ELSE aborted[1].count + 1,
                        redone |-> FALSE]>>
    /\ UNCHANGED <<request, events, queue, pc, audit, lastTask,
                   policyVars, argVars, parseVars, tableVars, twoVars>>

FailNext == Submit \/ RunPage \/ AbortPage

SpecFail == RunInit /\ [][FailNext]_vars

\* this step aborts a page
IsAbort == aborted' # <<>> /\ ~aborted'[1].redone /\ aborted' # aborted

\* this step executes the page that was aborted
IsRedo ==
    /\ aborted # <<>>
    /\ ~aborted[1].redone
    /\ audit'.pages = audit.pages + 1

\* the aborted page produces no successor: the enqueued task, with its
\* destination map and locked-hash set, is the one the page started from
AbortKeepsTask == queue' = queue /\ pc' = pc /\ audit' = audit

\* the execution after the abort ends as the page would have ended had no
\* call failed: same successor task, same table, same assignment of every
\* event of the page
RedoAsNeverFailed ==
    LET clean == ExecutePage(queue[1], events, aborted[1].clean)
    IN  /\ queue' = clean.queue
        /\ db'.table = clean.db.table
        /\ audit'.keys = clean.keys
        /\ audit'.assigned = clean.assigned
        /\ pc' = IF clean.queue = <<>> THEN "terminal" ELSE "queued"

RedoAlike ==
    LET args == UnmergeArgsParseArguments(queue[1]).value[1]
    IN  /\ \A i \in DOMAIN audit'.keys :
              audit'.keys[i] # NoneKey => audit'.keys[i] \in DOMAIN args.destinations
        /\ \/ args.class = "SuccessiveUnmergeArgs"
           \/ primary_hashes_to_lock(args.replacement) = {}

MaxRetries == 1

RetryPage ==
    /\ pc \in {"queued", "terminal"}
    /\ lastTask # <<>>
    /\ audit.retries < MaxRetries
    /\ \E res \in {ExecutePage(lastTask[1], events, db)} :
           /\ pc' = IF res.status # "ok" THEN "failed"
                    ELSE IF res.queue = <<>> THEN "terminal" ELSE "queued"
           /\ queue' = res.queue
           /\ db' = res.db
           /\ audit' = [audit EXCEPT !.retries = @ + 1,
                                     !.keys = res.keys,
                                     !.assigned = res.assigned,
                                     !.created = @ \cup res.created]
    /\ UNCHANGED <<lastTask, request, events, policyVars, argVars, aborted, parseVars, tableVars, twoVars>>

RetryNext == Submit \/ RunPage \/ RetryPage

SpecRetry == RunInit /\ [][RetryNext]_vars

\* this step executes the last page again
IsRetry == Running /\ audit'.retries = audit.retries + 1

\* the re-execution ends as the execution before it did
SameOutcome ==
    /\ pc' = pc
    /\ queue' = queue
    /\ db'.table = db.table
    /\ audit'.keys = audit.keys
    /\ audit'.assigned = audit.assigned

RerunsAlike ==
    LET args == UnmergeArgsParseArguments(lastTask[1]).value[1]
    IN  /\ \A i \in DOMAIN audit.keys :
              audit.keys[i] # NoneKey => audit.keys[i] \in DOMAIN args.destinations
        /\ \/ args.class = "SuccessiveUnmergeArgs"
           \/ primary_hashes_to_lock(args.replacement) = {}

IsFinalRetry == IsRetry /\ pc = "terminal"

\* the second execution leaves the stores as the first did: the same table,
\* the same streams started and ended, the same activity records, the same
\* groups excluded
SameStoresInEffect ==
    /\ pc' = "terminal"
    /\ db'.table = db.table
    /\ db'.opened = db.opened
    /\ DOMAIN db'.ends = DOMAIN db.ends
    /\ DOMAIN db'.activity = DOMAIN db.activity
    /\ DOMAIN db'.excluded = DOMAIN db.excluded

StreamsOfLastTask ==
    LET dests == UnmergeArgsParseArguments(lastTask[1]).value[1].destinations
    IN  {dests[k].stream[1] : k \in {x \in DOMAIN dests : dests[x].stream # <<>>}}

====
